---- MODULE Spec2Model ----
(***************************************************************************)
(* LimitMiddleware (batch_limiter_middleware.rs): a JSON-RPC middleware    *)
(* that wraps an inner RpcServiceT and gates every request through an      *)
(* optional governor RateLimiter built from Quota::per_minute(limit).      *)
(*                                                                         *)
(* Time is counted in ticks; TicksPerMinute ticks make the 60-second       *)
(* window of the quota.  Tokens are counted in units of 1/TicksPerMinute   *)
(* of a token, so that the continuous refill of limit tokens per minute is *)
(* exact integer arithmetic: one tick refills `limit` units and one        *)
(* request costs TicksPerMinute units.                                     *)
(***************************************************************************)
EXTENDS Integers, FiniteSets, Sequences, TLC

\* ---------------------------------------------------------------- bounds
MaxLimit == 2          \* largest requests_per_minute_limit tried
MaxReq == 4            \* number of requests offered in one behaviour
MaxTime == 3           \* the clock stops advancing here
TicksPerMinute == 3    \* clock ticks in the 60-second window
CounterBits == 3       \* width of a metrics counter (64 in the program)

\* ------------------------------------------------------ values and inputs
None == << >>                          \* Option::None
Some(x) == << x >>                    \* Option::Some(x)
Unwrap(o) == o[1]
Insts == {1, 2}                       \* middleware instances
Reqs == 1..MaxReq                     \* request slots, issued in this order
Transport == {"ws"}                   \* enum Transport { Ws }
TooManyRequestsCode == 429
TooManyRequestsMessage == "Too many requests"
ExpectMessage == "requests per minute must be > 0; qed"

\* jsonrpsee request ids: Id::Null, Id::Number, Id::Str
IdSeq == << [type |-> "Null", v |-> ""],
            [type |-> "Number", v |-> "7"],
            [type |-> "Str", v |-> "abc"] >>

\* the ids tried for the r-th request: two of the three kinds, rotating, so
\* that requests in flight together carry equal ids and different ids
IdsOf(r) == { IdSeq[((r - 1) % Len(IdSeq)) + 1], IdSeq[(r % Len(IdSeq)) + 1] }

\* Option<u32> values handed to new()
LimitArgs == {None} \cup { Some(n) : n \in 0..MaxLimit }

Min(a, b) == IF a <= b THEN a ELSE b
Max(a, b) == IF a >= b THEN a ELSE b

VARIABLES
  status,        \* per instance: "absent" | "unbuilt" | "built" | "panicked"
  limit_arg,     \* per instance: the requests_per_minute_limit given to new()
  diag,          \* per instance: the panic message of a failed new()
  rate_limiter,  \* per instance: None, or the bucket of the RateLimiter
  transport,     \* per instance: the metric label of the instance
  METRICS,       \* the process-global LimitMiddlewareMetrics
  now,           \* the monotonic clock
  pc,            \* per request: where its call() / its response future stands
  req,           \* per request: None, or [inst, id] once call() was entered
  decision,      \* per request: "", "NoLimiter", "Ok" or "Err"
  checkTime,     \* per request: the clock value of its gate check
  innerCalls,    \* per request: how many times inner.call(request) ran
  fut,           \* per request: the ResponseFuture returned by call()
  response,      \* per request: the MethodResponse the future resolved to
  inner_out      \* per request: what the inner handler's future resolved to

vars == << status, limit_arg, diag, rate_limiter, transport, METRICS, now,
           pc, req, decision, checkTime, innerCalls, fut, response, inner_out >>

\* ------------------------------------------------------- the gate (4.1)
\* Quota::per_minute(n): n cells per 60 seconds, burst size n.
per_minute(n) == [max_burst |-> n, per_min |-> n]

Capacity(q) == q.max_burst * TicksPerMinute
Cost(k) == k * TicksPerMinute

\* RateLimiter::direct(quota): the bucket starts full.
direct(q, t) == [quota |-> q, available |-> Capacity(q), last_refill |-> t]

\* accumulate (t - last_refill) * N / 60s tokens, clipped to the capacity;
\* a clock regression is clamped to no elapsed time.
Refill(rl, t) ==
  [rl EXCEPT !.available =
                Min(Capacity(rl.quota),
                    rl.available + Max(0, t - rl.last_refill) * rl.quota.per_min),
             !.last_refill = Max(t, rl.last_refill)]

\* check_n(k): the answer and the bucket it leaves behind, one atomic step.
check_n_ok(rl, k, t) == Refill(rl, t).available >= Cost(k)

check_n_state(rl, k, t) ==
  LET r == Refill(rl, t)
  IN  IF r.available >= Cost(k)
      THEN [r EXCEPT !.available = r.available - Cost(k)]
      ELSE r

\* ------------------------------------------------------------ responses
ErrorObject(code, message, data) ==
  [code |-> code, message |-> message, data |-> data]

MethodResponse_error(id, err) ==
  [id |-> id, result |-> None, error |-> Some(err)]

\* what the inner handler may answer to a request with this id
InnerResponses(id) ==
  { [id |-> id, result |-> Some("ok"), error |-> None],
    MethodResponse_error(id, ErrorObject(-32000, "inner error", None)) }

\* -------------------------------------------------------------- metrics
\* Counter::inc() on an unsigned counter of CounterBits bits
inc(c) == (c + 1) % (2 ^ CounterBits)

MetricsInit ==
  [rate_limited |-> [t \in Transport |-> 0],
   size         |-> [t \in Transport |-> 0],
   rejected     |-> [t \in Transport |-> 0]]

\* ------------------------------------------------------------------ Init
InitWith(active) ==
  /\ status = [i \in Insts |-> IF i \in active THEN "unbuilt" ELSE "absent"]
  /\ limit_arg = [i \in Insts |-> None]
  /\ diag = [i \in Insts |-> ""]
  /\ rate_limiter = [i \in Insts |-> None]
  /\ transport = [i \in Insts |-> ""]
  /\ METRICS = MetricsInit
  /\ now = 0
  /\ pc = [r \in Reqs |-> "new"]
  /\ req = [r \in Reqs |-> None]
  /\ decision = [r \in Reqs |-> ""]
  /\ checkTime = [r \in Reqs |-> None]
  /\ innerCalls = [r \in Reqs |-> 0]
  /\ fut = [r \in Reqs |-> [kind |-> "", rp |-> None]]
  /\ response = [r \in Reqs |-> None]
  /\ inner_out = [r \in Reqs |-> None]

Init == InitWith({1})

\* ------------------------------------------------- LimitMiddleware::new
\* as new, with the quota built by Quota::with_period(60s / limit): the same
\* rate, a burst of one
new_with_period(i, limit) ==
  /\ status[i] = "unbuilt"
  /\ limit_arg' = [limit_arg EXCEPT ![i] = limit]
  /\ IF limit = Some(0)
     THEN /\ status' = [status EXCEPT ![i] = "panicked"]
          /\ diag' = [diag EXCEPT ![i] = ExpectMessage]
          /\ UNCHANGED << rate_limiter, transport >>
     ELSE /\ status' = [status EXCEPT ![i] = "built"]
          /\ rate_limiter' =
               [rate_limiter EXCEPT ![i] =
                  IF limit = None THEN None
                  ELSE Some(direct([max_burst |-> 1,
                                    per_min |-> Unwrap(limit)], now))]
          /\ transport' = [transport EXCEPT ![i] = "ws"]
          /\ UNCHANGED diag
  /\ UNCHANGED << METRICS, now, pc, req, decision, checkTime, innerCalls,
                  fut, response, inner_out >>

\* as new, without the NonZeroU32 check: a limit of zero builds a limiter
new_unchecked(i, limit) ==
  /\ status[i] = "unbuilt"
  /\ limit_arg' = [limit_arg EXCEPT ![i] = limit]
  /\ status' = [status EXCEPT ![i] = "built"]
  /\ rate_limiter' =
       [rate_limiter EXCEPT ![i] =
          IF limit = None THEN None
          ELSE Some(direct(per_minute(Unwrap(limit)), now))]
  /\ transport' = [transport EXCEPT ![i] = "ws"]
  /\ UNCHANGED << diag, METRICS, now, pc, req, decision, checkTime,
                  innerCalls, fut, response, inner_out >>

\* as new, with the burst of the quota one above the limit
new_burst_plus(i, limit) ==
  /\ status[i] = "unbuilt"
  /\ limit_arg' = [limit_arg EXCEPT ![i] = limit]
  /\ IF limit = Some(0)
     THEN /\ status' = [status EXCEPT ![i] = "panicked"]
          /\ diag' = [diag EXCEPT ![i] = ExpectMessage]
          /\ UNCHANGED << rate_limiter, transport >>
     ELSE /\ status' = [status EXCEPT ![i] = "built"]
          /\ rate_limiter' =
               [rate_limiter EXCEPT ![i] =
                  IF limit = None THEN None
                  ELSE Some(direct([max_burst |-> Unwrap(limit) + 1,
                                    per_min |-> Unwrap(limit)], now))]
          /\ transport' = [transport EXCEPT ![i] = "ws"]
          /\ UNCHANGED diag
  /\ UNCHANGED << METRICS, now, pc, req, decision, checkTime, innerCalls,
                  fut, response, inner_out >>

new(i, limit) ==
  /\ status[i] = "unbuilt"
  /\ limit_arg' = [limit_arg EXCEPT ![i] = limit]
  /\ IF limit = Some(0)
     THEN \* NonZeroU32::new(0) is None: expect() panics, no Self is produced
          /\ status' = [status EXCEPT ![i] = "panicked"]
          /\ diag' = [diag EXCEPT ![i] = ExpectMessage]
          /\ UNCHANGED << rate_limiter, transport >>
     ELSE /\ status' = [status EXCEPT ![i] = "built"]
          /\ rate_limiter' =
               [rate_limiter EXCEPT ![i] =
                  IF limit = None THEN None
                  ELSE Some(direct(per_minute(Unwrap(limit)), now))]
          /\ transport' = [transport EXCEPT ![i] = "ws"]
          /\ UNCHANGED diag
  /\ UNCHANGED << METRICS, now, pc, req, decision, checkTime, innerCalls,
                  fut, response, inner_out >>

\* --------------------------------------------- LimitMiddleware::call
\* `if let Some(rate_limiter)` and `check_n(num_requests).is_err()`
\* as num_requests, asking the gate for two cells per request
num_requests_two == 1 + 1

num_requests == 1

\* as Denied, with an absent limiter read as an exhausted one
Denied_without_limiter(i) ==
  IF rate_limiter[i] = None THEN TRUE
  ELSE ~ check_n_ok(Unwrap(rate_limiter[i]), num_requests, now)

\* as Denied, with the test of the gate's answer inverted (is_ok for is_err)
Denied_inverted(i) ==
  /\ rate_limiter[i] /= None
  /\ check_n_ok(Unwrap(rate_limiter[i]), num_requests, now)

Denied(i) ==
  /\ rate_limiter[i] /= None
  /\ ~ check_n_ok(Unwrap(rate_limiter[i]), num_requests, now)

\* as call_check, with a check() left in front of check_n(): the request
\* is denied when either check fails, and a check that succeeded has taken
\* its token
call_check_twice(r, i, id) ==
  /\ status[i] = "built"
  /\ pc[r] = "new"
  /\ \A p \in Reqs : p < r => pc[p] /= "new"
  /\ req' = [req EXCEPT ![r] = Some([inst |-> i, id |-> id])]
  /\ checkTime' = [checkTime EXCEPT ![r] = Some(now)]
  /\ IF rate_limiter[i] = None
     THEN /\ UNCHANGED rate_limiter
          /\ decision' = [decision EXCEPT ![r] = "NoLimiter"]
          /\ pc' = [pc EXCEPT ![r] = "admitted"]
     ELSE LET rl == Unwrap(rate_limiter[i])
              first == check_n_ok(rl, 1, now)
              s1 == check_n_state(rl, 1, now)
              second == check_n_ok(s1, num_requests, now)
              s2 == check_n_state(s1, num_requests, now)
          IN  /\ rate_limiter' =
                   [rate_limiter EXCEPT ![i] =
                      IF first THEN Some(s2) ELSE Some(s1)]
              /\ IF first /\ second
                 THEN /\ decision' = [decision EXCEPT ![r] = "Ok"]
                      /\ pc' = [pc EXCEPT ![r] = "admitted"]
                 ELSE /\ decision' = [decision EXCEPT ![r] = "Err"]
                      /\ pc' = [pc EXCEPT ![r] = "denied"]
  /\ UNCHANGED << status, limit_arg, diag, transport, METRICS, now,
                  innerCalls, fut, response, inner_out >>

\* as call_check, with the gate's read-modify-write not atomic: the update
\* of the bucket is lost when another call is inside call() at that moment
call_check_racy(r, i, id) ==
  /\ status[i] = "built"
  /\ pc[r] = "new"
  /\ \A p \in Reqs : p < r => pc[p] /= "new"
  /\ req' = [req EXCEPT ![r] = Some([inst |-> i, id |-> id])]
  /\ checkTime' = [checkTime EXCEPT ![r] = Some(now)]
  /\ rate_limiter' =
       [rate_limiter EXCEPT ![i] =
          IF rate_limiter[i] = None THEN None
          ELSE IF \E p \in Reqs : pc[p] \in {"admitted", "denied"}
               THEN rate_limiter[i]
               ELSE Some(check_n_state(Unwrap(rate_limiter[i]),
                                       num_requests, now))]
  /\ IF Denied(i)
     THEN /\ decision' = [decision EXCEPT ![r] = "Err"]
          /\ pc' = [pc EXCEPT ![r] = "denied"]
     ELSE /\ decision' = [decision EXCEPT ![r] =
                            IF rate_limiter[i] = None THEN "NoLimiter" ELSE "Ok"]
          /\ pc' = [pc EXCEPT ![r] = "admitted"]
  /\ UNCHANGED << status, limit_arg, diag, transport, METRICS, now,
                  innerCalls, fut, response, inner_out >>

\* as call_check, with the limiter kept in one place for all middlewares
\* (the first one built) instead of in each instance
call_check_static(r, i, id) ==
  /\ status[i] = "built"
  /\ pc[r] = "new"
  /\ \A p \in Reqs : p < r => pc[p] /= "new"
  /\ req' = [req EXCEPT ![r] = Some([inst |-> i, id |-> id])]
  /\ checkTime' = [checkTime EXCEPT ![r] = Some(now)]
  /\ IF rate_limiter[i] = None
     THEN /\ UNCHANGED rate_limiter
          /\ decision' = [decision EXCEPT ![r] = "NoLimiter"]
          /\ pc' = [pc EXCEPT ![r] = "admitted"]
     ELSE LET k == CHOOSE m \in Insts :
                     /\ rate_limiter[m] /= None
                     /\ \A n \in Insts : rate_limiter[n] /= None => m <= n
              rl == Unwrap(rate_limiter[k])
          IN  /\ rate_limiter' =
                   [rate_limiter EXCEPT ![k] =
                      Some(check_n_state(rl, num_requests, now))]
              /\ IF check_n_ok(rl, num_requests, now)
                 THEN /\ decision' = [decision EXCEPT ![r] = "Ok"]
                      /\ pc' = [pc EXCEPT ![r] = "admitted"]
                 ELSE /\ decision' = [decision EXCEPT ![r] = "Err"]
                      /\ pc' = [pc EXCEPT ![r] = "denied"]
  /\ UNCHANGED << status, limit_arg, diag, transport, METRICS, now,
                  innerCalls, fut, response, inner_out >>

\* as call_check, with a denial costing what had been refilled so far: the
\* failed check empties the bucket
call_check_drains(r, i, id) ==
  /\ status[i] = "built"
  /\ pc[r] = "new"
  /\ \A p \in Reqs : p < r => pc[p] /= "new"
  /\ req' = [req EXCEPT ![r] = Some([inst |-> i, id |-> id])]
  /\ checkTime' = [checkTime EXCEPT ![r] = Some(now)]
  /\ rate_limiter' =
       [rate_limiter EXCEPT ![i] =
          IF rate_limiter[i] = None THEN None
          ELSE IF Denied(i)
               THEN Some([Unwrap(rate_limiter[i]) EXCEPT
                            !.available = 0, !.last_refill = now])
               ELSE Some(check_n_state(Unwrap(rate_limiter[i]),
                                       num_requests, now))]
  /\ IF Denied(i)
     THEN /\ decision' = [decision EXCEPT ![r] = "Err"]
          /\ pc' = [pc EXCEPT ![r] = "denied"]
     ELSE /\ decision' = [decision EXCEPT ![r] =
                            IF rate_limiter[i] = None THEN "NoLimiter" ELSE "Ok"]
          /\ pc' = [pc EXCEPT ![r] = "admitted"]
  /\ UNCHANGED << status, limit_arg, diag, transport, METRICS, now,
                  innerCalls, fut, response, inner_out >>

\* call() is entered for the next request slot and asks the gate.
call_check(r, i, id) ==
  /\ status[i] = "built"
  /\ pc[r] = "new"
  /\ \A p \in Reqs : p < r => pc[p] /= "new"
  /\ req' = [req EXCEPT ![r] = Some([inst |-> i, id |-> id])]
  /\ checkTime' = [checkTime EXCEPT ![r] = Some(now)]
  /\ rate_limiter' =
       [rate_limiter EXCEPT ![i] =
          IF rate_limiter[i] = None THEN None
          ELSE Some(check_n_state(Unwrap(rate_limiter[i]), num_requests, now))]
  /\ IF Denied(i)
     THEN /\ decision' = [decision EXCEPT ![r] = "Err"]
          /\ pc' = [pc EXCEPT ![r] = "denied"]
     ELSE /\ decision' = [decision EXCEPT ![r] =
                            IF rate_limiter[i] = None THEN "NoLimiter" ELSE "Ok"]
          /\ pc' = [pc EXCEPT ![r] = "admitted"]
  /\ UNCHANGED << status, limit_arg, diag, transport, METRICS, now,
                  innerCalls, fut, response, inner_out >>

\* as call_deny, falling through to the inner handler after the response is
\* built
call_deny_fallthrough(r) ==
  /\ pc[r] = "denied"
  /\ METRICS' = [METRICS EXCEPT
                   !.rate_limited[transport[Unwrap(req[r]).inst]] = inc(@)]
  /\ innerCalls' = [innerCalls EXCEPT ![r] = @ + 1]
  /\ fut' = [fut EXCEPT ![r] =
               [kind |-> "ready",
                rp |-> Some(MethodResponse_error(
                              Unwrap(req[r]).id,
                              ErrorObject(TooManyRequestsCode,
                                          TooManyRequestsMessage, None)))]]
  /\ pc' = [pc EXCEPT ![r] = "returned"]
  /\ UNCHANGED << status, limit_arg, diag, rate_limiter, transport, now,
                  req, decision, checkTime, response, inner_out >>

\* as call_deny, with the response id taken from the request that entered
\* call() last instead of from this request
call_deny_last_id(r) ==
  /\ pc[r] = "denied"
  /\ METRICS' = [METRICS EXCEPT
                   !.rate_limited[transport[Unwrap(req[r]).inst]] = inc(@)]
  /\ LET last == CHOOSE q \in Reqs :
                   /\ pc[q] /= "new"
                   /\ \A p \in Reqs : pc[p] /= "new" => p <= q
     IN  fut' = [fut EXCEPT ![r] =
                   [kind |-> "ready",
                    rp |-> Some(MethodResponse_error(
                                  Unwrap(req[last]).id,
                                  ErrorObject(TooManyRequestsCode,
                                              TooManyRequestsMessage, None)))]]
  /\ pc' = [pc EXCEPT ![r] = "returned"]
  /\ UNCHANGED << status, limit_arg, diag, rate_limiter, transport, now,
                  req, decision, checkTime, innerCalls, response, inner_out >>

\* as call_deny, with the gate asked once more before giving up: a request
\* denied earlier is admitted when a token has been refilled meanwhile
call_deny_retry(r) ==
  /\ pc[r] = "denied"
  /\ LET i == Unwrap(req[r]).inst
         rl == Unwrap(rate_limiter[i])
     IN  IF check_n_ok(rl, num_requests, now)
         THEN /\ rate_limiter' =
                   [rate_limiter EXCEPT ![i] =
                      Some(check_n_state(rl, num_requests, now))]
              /\ decision' = [decision EXCEPT ![r] = "Ok"]
              /\ pc' = [pc EXCEPT ![r] = "admitted"]
              /\ UNCHANGED << METRICS, fut >>
         ELSE /\ METRICS' = [METRICS EXCEPT
                               !.rate_limited[transport[i]] = inc(@)]
              /\ fut' = [fut EXCEPT ![r] =
                           [kind |-> "ready",
                            rp |-> Some(MethodResponse_error(
                                          Unwrap(req[r]).id,
                                          ErrorObject(TooManyRequestsCode,
                                                      TooManyRequestsMessage,
                                                      None)))]]
              /\ pc' = [pc EXCEPT ![r] = "returned"]
              /\ UNCHANGED << rate_limiter, decision >>
  /\ UNCHANGED << status, limit_arg, diag, transport, now,
                  req, checkTime, innerCalls, response, inner_out >>

\* as call_deny, counting the denial in `rejected` as well
call_deny_rejected(r) ==
  /\ pc[r] = "denied"
  /\ METRICS' = [METRICS EXCEPT
                   !.rate_limited[transport[Unwrap(req[r]).inst]] = inc(@),
                   !.rejected[transport[Unwrap(req[r]).inst]] = @ + 1]
  /\ fut' = [fut EXCEPT ![r] =
               [kind |-> "ready",
                rp |-> Some(MethodResponse_error(
                              Unwrap(req[r]).id,
                              ErrorObject(TooManyRequestsCode,
                                          TooManyRequestsMessage, None)))]]
  /\ pc' = [pc EXCEPT ![r] = "returned"]
  /\ UNCHANGED << status, limit_arg, diag, rate_limiter, transport, now,
                  req, decision, checkTime, innerCalls, response, inner_out >>

\* The denial path: METRICS.rate_limited[&self.transport].inc(), then
\* return ResponseFuture::ready(MethodResponse::error(request.id, 429 ...)).
\* Building the response touches nothing shared, so it is one step with
\* the increment.
call_deny(r) ==
  /\ pc[r] = "denied"
  /\ METRICS' = [METRICS EXCEPT
                   !.rate_limited[transport[Unwrap(req[r]).inst]] = inc(@)]
  /\ fut' = [fut EXCEPT ![r] =
               [kind |-> "ready",
                rp |-> Some(MethodResponse_error(
                              Unwrap(req[r]).id,
                              ErrorObject(TooManyRequestsCode,
                                          TooManyRequestsMessage, None)))]]
  /\ pc' = [pc EXCEPT ![r] = "returned"]
  /\ UNCHANGED << status, limit_arg, diag, rate_limiter, transport, now,
                  req, decision, checkTime, innerCalls, response, inner_out >>

\* as call_forward, with the rate_limited increment placed on the common
\* path
call_forward_counted(r) ==
  /\ pc[r] = "admitted"
  /\ METRICS' = [METRICS EXCEPT
                   !.rate_limited[transport[Unwrap(req[r]).inst]] = inc(@)]
  /\ innerCalls' = [innerCalls EXCEPT ![r] = @ + 1]
  /\ fut' = [fut EXCEPT ![r] = [kind |-> "future", rp |-> None]]
  /\ pc' = [pc EXCEPT ![r] = "returned"]
  /\ UNCHANGED << status, limit_arg, diag, rate_limiter, transport,
                  now, req, decision, checkTime, response, inner_out >>

\* ResponseFuture::future(self.inner.call(request))
call_forward(r) ==
  /\ pc[r] = "admitted"
  /\ innerCalls' = [innerCalls EXCEPT ![r] = @ + 1]
  /\ fut' = [fut EXCEPT ![r] = [kind |-> "future", rp |-> None]]
  /\ pc' = [pc EXCEPT ![r] = "returned"]
  /\ UNCHANGED << status, limit_arg, diag, rate_limiter, transport, METRICS,
                  now, req, decision, checkTime, response, inner_out >>

\* as poll, with an error of the inner handler replaced by an error of the
\* wrapper's own
poll_masks_error(r) ==
  /\ pc[r] = "returned"
  /\ IF fut[r].kind = "ready"
     THEN /\ response' = [response EXCEPT ![r] = fut[r].rp]
          /\ UNCHANGED inner_out
     ELSE \E rp \in InnerResponses(Unwrap(req[r]).id) :
            /\ inner_out' = [inner_out EXCEPT ![r] = Some(rp)]
            /\ response' =
                 [response EXCEPT ![r] =
                    IF rp.error = None THEN Some(rp)
                    ELSE Some(MethodResponse_error(
                                rp.id,
                                ErrorObject(-32603, "Internal error", None)))]
  /\ pc' = [pc EXCEPT ![r] = "done"]
  /\ UNCHANGED << status, limit_arg, diag, rate_limiter, transport, METRICS,
                  now, req, decision, checkTime, innerCalls, fut >>

\* The executor drives the returned future to completion: a ready future
\* yields its stored response, a wrapped future yields whatever the inner
\* handler's future yields.
poll(r) ==
  /\ pc[r] = "returned"
  /\ IF fut[r].kind = "ready"
     THEN /\ response' = [response EXCEPT ![r] = fut[r].rp]
          /\ UNCHANGED inner_out
     ELSE \E rp \in InnerResponses(Unwrap(req[r]).id) :
            /\ inner_out' = [inner_out EXCEPT ![r] = Some(rp)]
            /\ response' = [response EXCEPT ![r] = Some(rp)]
  /\ pc' = [pc EXCEPT ![r] = "done"]
  /\ UNCHANGED << status, limit_arg, diag, rate_limiter, transport, METRICS,
                  now, req, decision, checkTime, innerCalls, fut >>

\* as drop, with the token of a dropped admitted request handed back to the
\* bucket
drop_refund(r) ==
  /\ pc[r] = "returned"
  /\ pc' = [pc EXCEPT ![r] = "dropped"]
  /\ LET i == Unwrap(req[r]).inst
     IN  rate_limiter' =
           [rate_limiter EXCEPT ![i] =
              IF rate_limiter[i] = None \/ decision[r] /= "Ok" THEN @
              ELSE Some([Unwrap(@) EXCEPT !.available =
                           Min(Capacity(Unwrap(rate_limiter[i]).quota),
                               @ + Cost(1))])]
  /\ UNCHANGED << status, limit_arg, diag, transport, METRICS,
                  now, req, decision, checkTime, innerCalls, fut, response, inner_out >>

\* The caller drops the returned future before it resolves.
drop(r) ==
  /\ pc[r] = "returned"
  /\ pc' = [pc EXCEPT ![r] = "dropped"]
  /\ UNCHANGED << status, limit_arg, diag, rate_limiter, transport, METRICS,
                  now, req, decision, checkTime, innerCalls, fut, response, inner_out >>

\* The monotonic clock advances.
Tick ==
  /\ now < MaxTime
  /\ now' = now + 1
  /\ UNCHANGED << status, limit_arg, diag, rate_limiter, transport, METRICS,
                  pc, req, decision, checkTime, innerCalls, fut, response, inner_out >>

Next ==
  \/ \E i \in Insts, limit \in LimitArgs : new(i, limit)
  \/ \E r \in Reqs : \E i \in Insts, id \in IdsOf(r) : call_check(r, i, id)
  \/ \E r \in Reqs : call_deny(r)
  \/ \E r \in Reqs : call_forward(r)
  \/ \E r \in Reqs : poll(r)
  \/ \E r \in Reqs : drop(r)
  \/ Tick

Spec == Init /\ [][Next]_vars

\* Two middlewares constructed separately in one process.  The buckets are
\* touched by new() and by the gate check only, so the futures are left
\* unresolved here and every request carries the same id.
InitTwo == InitWith({1, 2})

NextTwo ==
  \/ \E i \in Insts, limit \in LimitArgs : new(i, limit)
  \/ \E r \in Reqs : \E i \in Insts : call_check(r, i, IdSeq[2])
  \/ \E r \in Reqs : call_deny(r)
  \/ \E r \in Reqs : call_forward(r)
  \/ Tick

SpecTwo == InitTwo /\ [][NextTwo]_vars

\* ---------------------------------------------- a long-running server
\* A request whose future resolved or was dropped is gone; its slot serves
\* the next request of the client.
retire(r) ==
  /\ pc[r] \in {"done", "dropped"}
  /\ pc' = [pc EXCEPT ![r] = "new"]
  /\ req' = [req EXCEPT ![r] = None]
  /\ decision' = [decision EXCEPT ![r] = ""]
  /\ checkTime' = [checkTime EXCEPT ![r] = None]
  /\ innerCalls' = [innerCalls EXCEPT ![r] = 0]
  /\ fut' = [fut EXCEPT ![r] = [kind |-> "", rp |-> None]]
  /\ response' = [response EXCEPT ![r] = None]
  /\ inner_out' = [inner_out EXCEPT ![r] = None]
  /\ UNCHANGED << status, limit_arg, diag, rate_limiter, transport, METRICS,
                  now >>

\* The clock advances past MaxTime: the origin of the clock moves one tick
\* forward instead, so every stored instant is one tick older.  An instant
\* already at the origin stays there and its tick of refill is put into the
\* bucket, which leaves what every later check finds unchanged.
TickShift ==
  /\ now = MaxTime
  /\ rate_limiter' =
       [i \in Insts |->
          IF rate_limiter[i] = None THEN None
          ELSE LET rl == Unwrap(rate_limiter[i])
               IN  IF rl.last_refill > 0
                   THEN Some([rl EXCEPT !.last_refill = @ - 1])
                   ELSE Some([rl EXCEPT !.available =
                                Min(Capacity(rl.quota),
                                    @ + rl.quota.per_min)])]
  /\ checkTime' =
       [r \in Reqs |->
          IF checkTime[r] = None THEN None
          ELSE Some(Max(0, Unwrap(checkTime[r]) - 1))]
  /\ UNCHANGED << status, limit_arg, diag, transport, METRICS, now,
                  pc, req, decision, innerCalls, fut, response, inner_out >>

\* One client that keeps two requests in flight at most and sends again as
\* soon as a slot is free, on a server that runs for ever.
LiveReqs == {1, 2}

NextLive ==
  \/ \E limit \in LimitArgs : new(1, limit)
  \/ \E r \in LiveReqs : call_check(r, 1, IdSeq[2])
  \/ \E r \in LiveReqs : call_deny(r)
  \/ \E r \in LiveReqs : call_forward(r)
  \/ \E r \in LiveReqs : poll(r)
  \/ \E r \in LiveReqs : retire(r)
  \/ Tick
  \/ TickShift

\* The clock never stops, every call that was entered runs to its return,
\* the executor drives every returned future, and the client keeps sending.
SpecLive ==
  /\ Init
  /\ [][NextLive]_vars
  /\ WF_vars(Tick \/ TickShift)
  /\ WF_vars(\E r \in LiveReqs : call_check(r, 1, IdSeq[2]))
  /\ WF_vars(\E r \in LiveReqs : call_deny(r))
  /\ WF_vars(\E r \in LiveReqs : call_forward(r))
  /\ WF_vars(\E r \in LiveReqs : poll(r))
  /\ WF_vars(\E r \in LiveReqs : retire(r))

\* ======================================================= derived notions
Entered(r) == pc[r] /= "new"
InstOf(r) == Unwrap(req[r]).inst
IdOf(r) == Unwrap(req[r]).id
TimeOf(r) == Unwrap(checkTime[r])
Returned(r) == pc[r] \in {"returned", "done", "dropped"}
Limited(i) == status[i] = "built" /\ rate_limiter[i] /= None
Unlimited(i) == status[i] = "built" /\ rate_limiter[i] = None
LimitOf(i) == Unwrap(limit_arg[i])

\* the requests that reached the gate of instance i, and the position of
\* a request among them
OnInst(i) == { r \in Reqs : Entered(r) /\ InstOf(r) = i }
Rank(r) == Cardinality({ p \in OnInst(InstOf(r)) : p <= r })

\* ------------------------------------------------------------------ C1
\* C1: a request the gate denies is never handed to the inner handler,
\* neither while its call() runs nor in any later state.
C1_DeniedNeverForwarded ==
  \A r \in Reqs : decision[r] = "Err" => innerCalls[r] = 0

\* a denied request has its response, and a later request was admitted and
\* forwarded after it
C1_Witness ==
  \E r, q \in Reqs :
    /\ r < q
    /\ decision[r] = "Err" /\ pc[r] = "done"
    /\ decision[q] = "Ok" /\ innerCalls[q] = 1

\* ------------------------------------------------------------------ C2
\* C2: the response of every denied request is an error with code 429,
\* message "Too many requests", no data and the id of that very request,
\* whatever the type of the id and whatever other calls are in flight.
C2_DenialResponse ==
  \A r \in Reqs :
    decision[r] = "Err" /\ Returned(r) =>
      LET rp == [id |-> IdOf(r),
                 result |-> << >>,
                 error |-> << [code |-> 429,
                               message |-> "Too many requests",
                               data |-> << >>] >>]
      IN  /\ fut[r] = [kind |-> "ready", rp |-> << rp >>]
          /\ pc[r] = "done" => response[r] = << rp >>

\* two denied requests with ids of different types, the later one already
\* in call() when the earlier one gets its response
C2_Witness ==
  \E r, q \in Reqs :
    /\ r < q
    /\ decision[r] = "Err" /\ pc[r] = "done"
    /\ decision[q] = "Err" /\ pc[q] = "denied"
    /\ IdOf(r).type = "Str" /\ IdOf(q).type = "Null"

\* ------------------------------------------------------------------ C3
\* C3: on a middleware built without a limit no request is denied, every
\* request whose call() returned was forwarded exactly once, a resolved
\* response is the inner handler's response, and the metrics stay untouched
\* as long as only such middlewares exist.
C3_PassThrough ==
  /\ \A r \in Reqs :
        Entered(r) /\ Unlimited(InstOf(r)) =>
          /\ decision[r] = "NoLimiter"
          /\ innerCalls[r] = IF Returned(r) THEN 1 ELSE 0
          /\ Returned(r) => fut[r] = [kind |-> "future", rp |-> << >>]
          /\ pc[r] = "done" =>
                /\ inner_out[r] /= << >>
                /\ response[r] = inner_out[r]
  /\ (\A i \in Insts : status[i] = "built" => rate_limiter[i] = None)
        => METRICS = MetricsInit

\* every request went through an unlimited middleware and resolved, one of
\* them to an error of the inner handler
C3_Witness ==
  /\ \A r \in Reqs : pc[r] = "done" /\ Unlimited(InstOf(r))
  /\ \E r \in Reqs : response[r][1].error /= << >>
  /\ \E r \in Reqs : response[r][1].result /= << >>

\* -------------------------------------------------- gate-level notions
\* the first request that reached the gate of instance i
First(i) == CHOOSE r \in OnInst(i) : \A p \in OnInst(i) : r <= p

\* the requests instance i admitted with a gate check in [a, b)
AdmittedIn(i, a, b) ==
  { r \in OnInst(i) : decision[r] = "Ok" /\ a <= TimeOf(r) /\ TimeOf(r) < b }

\* the response a denial must produce for request r
Is429For(r) ==
  fut[r] = [kind |-> "ready",
            rp |-> << [id |-> IdOf(r),
                       result |-> << >>,
                       error |-> << [code |-> 429,
                                     message |-> "Too many requests",
                                     data |-> << >>] >>] >>]

\* ------------------------------------------------------------------ C4
\* C4: with limit = N, the first N requests that reach a fresh middleware
\* within 60 seconds of the first one are all admitted, whatever their
\* arrival times inside that window.
C4_FirstNAdmitted ==
  \A r \in Reqs :
    ( /\ Entered(r)
      /\ Limited(InstOf(r))
      /\ Rank(r) <= LimitOf(InstOf(r))
      /\ TimeOf(r) - TimeOf(First(InstOf(r))) < TicksPerMinute )
    => decision[r] = "Ok"

\* limit 2: the first two requests arrive at different times within the
\* window and both are admitted
C4_Witness ==
  \E r, q \in Reqs :
    /\ r < q /\ Entered(q)
    /\ Limited(InstOf(r)) /\ LimitOf(InstOf(r)) = 2
    /\ InstOf(q) = InstOf(r) /\ Rank(r) = 1 /\ Rank(q) = 2
    /\ TimeOf(r) < TimeOf(q) /\ TimeOf(q) - TimeOf(r) < TicksPerMinute
    /\ decision[r] = "Ok" /\ decision[q] = "Ok"

\* ------------------------------------------------------------------ C5
\* C5 as stated: with limit = N the (N+1)-th request reaching a fresh
\* middleware within 60 seconds of the first is denied, with a 429 response
\* carrying its id.
C5_Original ==
  \A r \in Reqs :
    ( /\ Entered(r)
      /\ Limited(InstOf(r))
      /\ Rank(r) = LimitOf(InstOf(r)) + 1
      /\ TimeOf(r) - TimeOf(First(InstOf(r))) < TicksPerMinute )
    => /\ decision[r] = "Err"
       /\ Returned(r) => Is429For(r)

\* C5 amended: with limit = N the (N+1)-th request reaching a fresh
\* middleware is denied, with a 429 response carrying its id, when it
\* arrives before one whole token has been refilled since the first
\* request, that is less than 60/N seconds after it.
C5_DeniedBeforeRefill ==
  \A r \in Reqs :
    ( /\ Entered(r)
      /\ Limited(InstOf(r))
      /\ Rank(r) = LimitOf(InstOf(r)) + 1
      /\ (TimeOf(r) - TimeOf(First(InstOf(r)))) * LimitOf(InstOf(r))
            < TicksPerMinute )
    => /\ decision[r] = "Err"
       /\ Returned(r) => Is429For(r)

\* limit 2: the third request arrives one tick after the first, is denied
\* and has resolved
C5_Witness ==
  \E r \in Reqs :
    /\ Entered(r) /\ Limited(InstOf(r)) /\ LimitOf(InstOf(r)) = 2
    /\ Rank(r) = 3
    /\ TimeOf(r) = TimeOf(First(InstOf(r))) + 1
    /\ decision[r] = "Err" /\ pc[r] = "done"

\* ------------------------------------------------------------------ C6
\* C6 as stated: with limit = N, in every 60-second window the number of
\* admissions is at most N, and in the window that starts with the first
\* request of a fresh middleware it is at least min(N, offered).
C6_Original ==
  \A i \in Insts :
    Limited(i) /\ OnInst(i) /= {} =>
      /\ \A a \in 0..MaxTime :
            Cardinality(AdmittedIn(i, a, a + TicksPerMinute)) <= LimitOf(i)
      /\ LET t0 == TimeOf(First(i))
             offered == { r \in OnInst(i) : TimeOf(r) < t0 + TicksPerMinute }
         IN  Cardinality(AdmittedIn(i, t0, t0 + TicksPerMinute))
               >= Min(LimitOf(i), Cardinality(offered))

\* C6 amended: with K callers racing against a fresh middleware with
\* limit = N, at least min(N, offered) are admitted in the 60-second window
\* that starts with the first of them, and as long as all of them reach the
\* gate before one whole token has been refilled (less than 60/N seconds
\* after the first) exactly min(N, K) are admitted and the others denied.
C6_RaceAdmissions ==
  \A i \in Insts :
    Limited(i) /\ OnInst(i) /= {} =>
      LET t0 == TimeOf(First(i))
          offered == { r \in OnInst(i) : TimeOf(r) < t0 + TicksPerMinute }
          early == { r \in OnInst(i) :
                       (TimeOf(r) - t0) * LimitOf(i) < TicksPerMinute }
      IN  /\ Cardinality(AdmittedIn(i, t0, t0 + TicksPerMinute))
                >= Min(LimitOf(i), Cardinality(offered))
          /\ Cardinality({ r \in early : decision[r] = "Ok" })
                = Min(LimitOf(i), Cardinality(early))
          /\ \A r \in early : decision[r] \in {"Ok", "Err"}

\* limit 2, four callers at the same instant, all still inside call():
\* two admitted, two denied
C6_Witness ==
  /\ Limited(1) /\ LimitOf(1) = 2
  /\ \A r \in Reqs : Entered(r) /\ TimeOf(r) = TimeOf(1)
  /\ \A r \in Reqs : pc[r] \in {"admitted", "denied"}
  /\ Cardinality({ r \in Reqs : decision[r] = "Ok" }) = 2
  /\ Cardinality({ r \in Reqs : decision[r] = "Err" }) = MaxReq - 2

\* ------------------------------------------------------------------ C7
\* C7: with limit = N, when a request reaches the gate a full 60 seconds or
\* more after the previous one, it and the requests after it, N in all, are
\* admitted, whatever the bucket held before the quiet period.
C7_RefillAfterQuiet ==
  \A r, p \in Reqs :
    ( /\ Entered(r) /\ Entered(p)
      /\ Limited(InstOf(r))
      /\ InstOf(p) = InstOf(r)
      /\ Rank(p) + 1 = Rank(r)
      /\ TimeOf(r) - TimeOf(p) >= TicksPerMinute )
    => \A q \in OnInst(InstOf(r)) :
         Rank(r) <= Rank(q) /\ Rank(q) < Rank(r) + LimitOf(InstOf(r))
           => decision[q] = "Ok"

\* limit 2: two admissions empty the bucket, a third request is denied,
\* and after a quiet full window the fourth is admitted
C7_Witness ==
  /\ Limited(1) /\ LimitOf(1) = 2
  /\ \A r \in Reqs : Entered(r)
  /\ decision[1] = "Ok" /\ decision[2] = "Ok" /\ decision[3] = "Err"
  /\ TimeOf(4) - TimeOf(3) >= TicksPerMinute
  /\ decision[4] = "Ok"

\* ------------------------------------------------------------------ C8
\* C8: rate_limited{ws} counts the denials: it is the number of denied
\* calls that have run their denial path, admitted calls leave it alone, and
\* once no call is between its gate check and its increment it equals the
\* number of denied requests.
C8_CounterIsDenials ==
  /\ METRICS.rate_limited["ws"]
       = Cardinality({ r \in Reqs : decision[r] = "Err" /\ pc[r] /= "denied" })
  /\ (\A r \in Reqs : pc[r] /= "denied")
       => METRICS.rate_limited["ws"]
            = Cardinality({ r \in Reqs : decision[r] = "Err" })

\* two denials counted, while admitted calls have been forwarded
C8_Witness ==
  /\ METRICS.rate_limited["ws"] = 2
  /\ \A r \in Reqs : Returned(r)
  /\ \E r \in Reqs : decision[r] = "Ok" /\ innerCalls[r] = 1

\* ------------------------------------------------------------------ C9
\* C9: new() with a limit of zero panics with the expect() message and
\* leaves no middleware (no limiter, no label, no request ever served);
\* new() with a positive limit or with no limit yields a middleware.
C9_ZeroLimitPanics ==
  \A i \in Insts :
    /\ status[i] = "panicked" <=>
         (status[i] \notin {"absent", "unbuilt"} /\ limit_arg[i] = << 0 >>)
    /\ status[i] = "built" <=>
         (status[i] \notin {"absent", "unbuilt"} /\ limit_arg[i] /= << 0 >>)
    /\ status[i] = "panicked" =>
         /\ diag[i] = "requests per minute must be > 0; qed"
         /\ rate_limiter[i] = << >>
         /\ transport[i] = ""
         /\ OnInst(i) = {}
    /\ status[i] = "built" =>
         /\ diag[i] = ""
         /\ transport[i] = "ws"
         /\ limit_arg[i] = << >> <=> rate_limiter[i] = << >>
         /\ rate_limiter[i] /= << >> =>
               rate_limiter[i][1].quota.max_burst = limit_arg[i][1]

\* the construction with limit 0 has panicked
C9_Witness ==
  status[1] = "panicked" /\ limit_arg[1] = << 0 >>

\* ----------------------------------------------------------------- C10
\* the tokens (in 1/TicksPerMinute units) instance i would hold now if only
\* its admitted requests had touched the bucket, replayed from request r on
\* with `avail` units at time `last`
RECURSIVE AdmissionsOnly(_, _, _, _)
AdmissionsOnly(i, r, avail, last) ==
  LET cap == LimitOf(i) * TicksPerMinute
  IN  IF r > MaxReq
      THEN Min(cap, avail + (now - last) * LimitOf(i))
      ELSE IF Entered(r) /\ InstOf(r) = i /\ decision[r] = "Ok"
           THEN AdmissionsOnly(
                  i, r + 1,
                  Min(cap, avail + (TimeOf(r) - last) * LimitOf(i))
                    - TicksPerMinute,
                  TimeOf(r))
           ELSE AdmissionsOnly(i, r + 1, avail, last)

\* C10: a denied check consumes no tokens: what the bucket holds is what
\* the admissions and the refill alone produce, so denied requests neither
\* reduce nor delay later admissions.
C10_DenialConsumesNothing ==
  \A i \in Insts :
    Limited(i) =>
      LET rl == Unwrap(rate_limiter[i])
          cap == LimitOf(i) * TicksPerMinute
      IN  Min(cap, rl.available + (now - rl.last_refill) * LimitOf(i))
            = AdmissionsOnly(i, 1, cap, 0)

\* limit 1: after the admission two requests are denied during the refill,
\* and the fourth is admitted exactly one window after the first
C10_Witness ==
  /\ Limited(1) /\ LimitOf(1) = 1
  /\ \A r \in Reqs : Entered(r)
  /\ decision[1] = "Ok" /\ decision[2] = "Err" /\ decision[3] = "Err"
  /\ TimeOf(1) < TimeOf(2) /\ TimeOf(2) < TimeOf(3)
  /\ TimeOf(4) = TimeOf(1) + TicksPerMinute
  /\ decision[4] = "Ok"

\* ----------------------------------------------------------------- C11
\* what instance i holds, in 1/TicksPerMinute units, after the refill up to
\* the current clock value
RefilledNow(i) ==
  LET rl == Unwrap(rate_limiter[i])
  IN  Min(LimitOf(i) * TicksPerMinute,
          rl.available + (now - rl.last_refill) * LimitOf(i))

\* C11: admission is eager and irrevocable: the step of call() that admits
\* a request takes its token at once, and no later step of that request
\* (forwarding, the future resolving to a result or to an error, the future
\* being dropped) changes the bucket.
C11_AdmissionIrrevocable ==
  [][ \A r \in Reqs :
        /\ (pc[r] = "new" /\ pc'[r] = "admitted"
              /\ Limited(Unwrap(req'[r]).inst))
             => Unwrap(rate_limiter'[Unwrap(req'[r]).inst]).available
                  = RefilledNow(Unwrap(req'[r]).inst) - TicksPerMinute
        /\ (pc[r] /= "new" /\ pc'[r] /= pc[r])
             => rate_limiter' = rate_limiter ]_vars

\* limit 2: one admitted request was dropped, another resolved to an error
\* of the inner handler, and a third request at the same instant is denied
C11_Witness ==
  \E r, q, d \in Reqs :
    /\ Limited(1) /\ LimitOf(1) = 2
    /\ decision[r] = "Ok" /\ pc[r] = "dropped"
    /\ decision[q] = "Ok" /\ pc[q] = "done" /\ response[q][1].error /= << >>
    /\ decision[d] = "Err" /\ r < d /\ q < d
    /\ TimeOf(d) = TimeOf(r) /\ TimeOf(d) = TimeOf(q)

\* ----------------------------------------------------------------- C12
\* C12: with a limiter configured, an admitted request is forwarded to the
\* inner handler exactly once, its response is the inner handler's response
\* unchanged, a result or an error, and it costs exactly one token: while no
\* refill has happened the bucket is short of its capacity by one token per
\* admitted request.
C12_AdmittedForwardedOnce ==
  /\ \A r \in Reqs :
        decision[r] = "Ok" =>
          /\ Limited(InstOf(r))
          /\ innerCalls[r] = IF Returned(r) THEN 1 ELSE 0
          /\ Returned(r) => fut[r] = [kind |-> "future", rp |-> << >>]
          /\ pc[r] = "done" =>
                /\ inner_out[r] /= << >>
                /\ response[r] = inner_out[r]
  /\ \A i \in Insts :
        ( /\ Limited(i)
          /\ OnInst(i) /= {}
          /\ \A r \in OnInst(i) : TimeOf(r) = now )
        => Unwrap(rate_limiter[i]).available
             = LimitOf(i) * TicksPerMinute
                 - TicksPerMinute
                     * Cardinality({ r \in OnInst(i) : decision[r] = "Ok" })

\* limit 2: two requests admitted at the same instant, one resolved to the
\* inner handler's result and one to the inner handler's error
C12_Witness ==
  \E r, q \in Reqs :
    /\ Limited(1) /\ LimitOf(1) = 2
    /\ decision[r] = "Ok" /\ decision[q] = "Ok"
    /\ TimeOf(r) = now /\ TimeOf(q) = now
    /\ pc[r] = "done" /\ response[r][1].result /= << >>
    /\ pc[q] = "done" /\ response[q][1].error /= << >>
    /\ Unwrap(rate_limiter[1]).available = 0

\* ----------------------------------------------------------------- C13
\* C13: the admit/deny decision of a request is taken once, in the step of
\* call() that asks the gate, and never revised: a denied request stays
\* denied, is never forwarded and takes no token later, also when tokens
\* become available; the bucket changes only in the step in which a request
\* asks the gate.
C13_DecidedOnce ==
  [][ /\ \A r \in Reqs :
           /\ decision[r] /= "" => decision'[r] = decision[r]
           /\ decision'[r] /= decision[r] => (pc[r] = "new" /\ pc'[r] /= "new")
           /\ decision[r] = "Err" =>
                 /\ pc'[r] \in {"denied", "returned", "done", "dropped"}
                 /\ innerCalls'[r] = 0
      /\ (\E i \in Insts : status[i] = "built"
                             /\ rate_limiter'[i] /= rate_limiter[i])
           => \E r \in Reqs : pc[r] = "new" /\ pc'[r] /= "new" ]_vars

\* a request was denied and is still inside call() or has its response,
\* and meanwhile the bucket holds a whole token again
C13_Witness ==
  \E r \in Reqs :
    /\ decision[r] = "Err"
    /\ TimeOf(r) < now
    /\ RefilledNow(InstOf(r)) >= TicksPerMinute
    /\ innerCalls[r] = 0

\* ----------------------------------------------------------------- C14
\* the calls of instance i run one after the other, in the order in which
\* they reached the gate, from request r on: the requests admitted so far
\* and the bucket left behind
RECURSIVE SeqRun(_, _, _, _, _)
SeqRun(i, r, avail, last, oks) ==
  IF r > MaxReq
  THEN [admitted |-> oks, available |-> avail, last_refill |-> last]
  ELSE IF ~ (Entered(r) /\ InstOf(r) = i)
       THEN SeqRun(i, r + 1, avail, last, oks)
       ELSE LET a == Min(LimitOf(i) * TicksPerMinute,
                         avail + (TimeOf(r) - last) * LimitOf(i))
            IN  IF a >= TicksPerMinute
                THEN SeqRun(i, r + 1, a - TicksPerMinute, TimeOf(r),
                            oks \cup {r})
                ELSE SeqRun(i, r + 1, a, TimeOf(r), oks)

\* C14: calls that overlap in time are linearized by the gate: in every
\* interleaving the admit/deny outcomes and the bucket are those of the
\* same calls run one after the other, so no token is granted twice.
C14_Linearized ==
  \A i \in Insts :
    Limited(i) /\ OnInst(i) /= {} =>
      LET s == SeqRun(i, 1, LimitOf(i) * TicksPerMinute, 0, {})
      IN  /\ { r \in OnInst(i) : decision[r] = "Ok" } = s.admitted
          /\ { r \in OnInst(i) : decision[r] = "Err" }
               = OnInst(i) \ s.admitted
          /\ Unwrap(rate_limiter[i]).available = s.available
          /\ Unwrap(rate_limiter[i]).last_refill = s.last_refill

\* limit 1: two calls are inside call() together, the first admitted and
\* not yet forwarded, the second denied and not yet counted
C14_Witness ==
  \E r, q \in Reqs :
    /\ Limited(1) /\ LimitOf(1) = 1
    /\ r < q
    /\ pc[r] = "admitted" /\ decision[r] = "Ok"
    /\ pc[q] = "denied" /\ decision[q] = "Err"
    /\ Unwrap(rate_limiter[1]).available = 0

\* ----------------------------------------------------------------- C15
\* C15: two middlewares constructed separately share no bucket: a call on
\* one instance, and the construction of one instance, leave the bucket of
\* the other as it was, and whether a call is denied depends on the bucket
\* of its own instance alone.
C15_NoSharedBucket ==
  [][ /\ \A r \in Reqs :
           (pc[r] = "new" /\ pc'[r] /= "new") =>
             LET j == Unwrap(req'[r]).inst
             IN  /\ \A i \in Insts \ {j} :
                       rate_limiter'[i] = rate_limiter[i]
                 /\ decision'[r] = "Err"
                       <=> (Limited(j) /\ RefilledNow(j) < TicksPerMinute)
      /\ \A j \in Insts :
           status'[j] /= status[j] =>
             \A i \in Insts \ {j} : rate_limiter'[i] = rate_limiter[i] ]_vars

\* both instances have limit 1: the first is exhausted and has denied a
\* request; a request on the second at the same instant is admitted
C15_Witness ==
  \E r, q, d \in Reqs :
    /\ Limited(1) /\ Limited(2) /\ LimitOf(1) = 1 /\ LimitOf(2) = 1
    /\ r < d /\ d < q /\ Entered(q)
    /\ InstOf(r) = 1 /\ decision[r] = "Ok"
    /\ InstOf(d) = 1 /\ decision[d] = "Err"
    /\ InstOf(q) = 2 /\ decision[q] = "Ok"
    /\ TimeOf(q) = TimeOf(r)

C17_AvailableInRange ==
  \A i \in Insts :
    Limited(i) =>
      LET rl == Unwrap(rate_limiter[i])
      IN  /\ 0 <= rl.available
          /\ rl.available <= LimitOf(i) * TicksPerMinute
          /\ 0 <= RefilledNow(i)
          /\ RefilledNow(i) <= LimitOf(i) * TicksPerMinute
          /\ rl.last_refill <= now

\* limit 2: one token was taken and the bucket has been idle for a full
\* window since, so that the refill is cut at the capacity
C17_Witness ==
  /\ Limited(1) /\ LimitOf(1) = 2
  /\ \E r \in Reqs : decision[r] = "Ok"
  /\ LET rl == Unwrap(rate_limiter[1])
     IN  /\ rl.available < 2 * TicksPerMinute
         /\ rl.available + (now - rl.last_refill) * 2 > 2 * TicksPerMinute
  /\ RefilledNow(1) = 2 * TicksPerMinute

\* ----------------------------------------------------------------- C18
\* inner.call() invocations made for the requests r..MaxReq
RECURSIVE InnerInvocations(_)
InnerInvocations(r) ==
  IF r > MaxReq THEN 0 ELSE innerCalls[r] + InnerInvocations(r + 1)

\* C18: every call that returned did exactly one of two things: it
\* forwarded the request to the inner handler (once, returning the wrapped
\* future) or it returned a ready 429 response, never both and never
\* neither; so the inner invocations and the 429 responses add up to the
\* number of calls that returned, and a call still inside call() has done
\* neither yet.
C18_ExactlyOneOutcome ==
  /\ \A r \in Reqs :
        /\ Returned(r) =>
              \/ (innerCalls[r] = 1 /\ fut[r].kind = "future"
                    /\ fut[r].rp = << >>)
              \/ (innerCalls[r] = 0 /\ Is429For(r))
        /\ ~ Returned(r) => (innerCalls[r] = 0 /\ fut[r].kind = "")
  /\ InnerInvocations(1)
       + Cardinality({ r \in Reqs : fut[r].kind = "ready" })
       = Cardinality({ r \in Reqs : Returned(r) })

\* all calls returned, some forwarded and some answered with 429
C18_Witness ==
  /\ \A r \in Reqs : Returned(r)
  /\ \E r \in Reqs : fut[r].kind = "ready"
  /\ \E r \in Reqs : fut[r].kind = "future" /\ decision[r] = "Ok"
  /\ InnerInvocations(1) = 2

\* ----------------------------------------------------------------- C19
\* the requests instance i admitted with a gate check in [a, b]
AdmittedWithin(i, a, b) ==
  { r \in OnInst(i) : decision[r] = "Ok" /\ a <= TimeOf(r) /\ TimeOf(r) <= b }

\* C19: with limit = N, the requests admitted in any interval of length T,
\* wherever it starts, number at most N + T * N / 60s; in particular at most
\* 2N in any span of 60 seconds.
C19_AdmissionBound ==
  \A i \in Insts :
    Limited(i) =>
      \A a \in 0..MaxTime : \A b \in a..MaxTime :
        /\ Cardinality(AdmittedWithin(i, a, b)) * TicksPerMinute
             <= LimitOf(i) * TicksPerMinute + (b - a) * LimitOf(i)
        /\ b - a <= TicksPerMinute
             => Cardinality(AdmittedWithin(i, a, b)) <= 2 * LimitOf(i)

\* limit 2: more than two requests admitted inside one window, and the
\* interval does not start at the fresh bucket (an admission precedes it)
C19_Witness ==
  /\ Limited(1) /\ LimitOf(1) = 2
  /\ \E a \in 1..MaxTime :
       /\ Cardinality(AdmittedWithin(1, 0, a)) = 3
       /\ a < TicksPerMinute
       /\ \E r \in OnInst(1) : decision[r] = "Err"
       /\ Cardinality(AdmittedWithin(1, a, MaxTime)) >= 1

\* ----------------------------------------------------------------- C20
\* C20: no permanent lockout: on a server whose clock keeps advancing, for a
\* client that keeps sending, every denial is followed by the admission of
\* some later request; denied requests cannot keep the bucket empty.
C20_NoLockout ==
  (\E r \in Reqs : pc[r] = "denied") ~> (\E r \in Reqs : pc[r] = "admitted")

\* a request is admitted although the client has been denied twice since
\* the bucket was last touched by an admission: the counter shows the
\* denials, the bucket was empty and has refilled
C20_Witness ==
  /\ Limited(1) /\ LimitOf(1) = 1
  /\ METRICS.rate_limited["ws"] >= 2
  /\ \E r \in Reqs : pc[r] = "admitted" /\ decision[r] = "Ok"
====
